---- MODULE Spec2Model ----
(***************************************************************************)
(* State-machine model of the fund_manager program                         *)
(* (contracts/programs/fund_manager/src/lib.rs): one escrow ledger         *)
(* (FundAccount), the whitelist entries (WhitelistEntry, one per address), *)
(* and the token accounts the instructions move value between; and of the  *)
(* instance_registry program (contracts/programs/instance_registry/src/    *)
(* lib.rs): the registry (RegistryConfig), the instance records and the    *)
(* per-authority rate-limit accounts.  The two programs share nothing but  *)
(* the clock; each has its own specification.                              *)
(*                                                                         *)
(* Every instruction is one action.  An instruction that fails leaves the  *)
(* program state untouched (the transaction is rolled back) and only       *)
(* records its outcome in `last`.                                          *)
(***************************************************************************)
EXTENDS Integers, Sequences, FiniteSets

\* ------------------------------------------------------------------ bounds

\* Number of token units in circulation.
Supply == 1

\* Largest amount passed to store_funds / allocate_funds: more than any
\* account can hold.
MaxAmount == Supply + 1

\* u64::MAX, scaled down so that total_funds can be driven to the limit of
\* its checked arithmetic.
U64_MAX == Supply + 1

\* label.len() <= 64
MAX_LABEL_LEN == 64

\* require!(clock.unix_timestamp - rate_limit.last_registration >= 60, ...)
RATE_LIMIT_SECONDS == 60

\* endpoint.len() <= 200
MAX_ENDPOINT_LEN == 200

\* Lamports every signer starts with.
InitialLamports == 2

\* ------------------------------------------------------------- identities

\* Keys that can sign a transaction.
Signers == {"A", "B"}

\* Pubkey::default(): nobody holds its private key.
DefaultPubkey == "Default"

\* The program-derived address of seeds [b"fund_account"]: the escrow
\* authority.  Only the program can sign for it (invoke_signed).
FundPDA == "FundPDA"

\* The program-derived address of seeds [b"registry_config"]: the account
\* the registration fees are paid to.
RegistryPDA == "RegistryPDA"

\* Values of a Pubkey argument.
Pubkeys == Signers \cup {DefaultPubkey}

\* Addresses add_whitelist is called with.
WhitelistKeys == Signers

\* Token accounts (one mint) and the owner field of each.
TokenAccounts == {"escrow", "acctA", "acctB"}

TokenOwner(a) ==
    CASE a = "escrow" -> FundPDA
      [] a = "acctA"  -> "A"
      [] a = "acctB"  -> "B"

Amounts == 1..MaxAmount

\* The (source, destination) pairs a transfer is called with: two distinct
\* token accounts.
TransferPairs == {p \in TokenAccounts \X TokenAccounts : p[1] # p[2]}

Label(n) == [i \in 1..n |-> "x"]

Labels == {Label(MAX_LABEL_LEN), Label(MAX_LABEL_LEN + 1)}

\* One timestamp per entry that can be created.
MaxClock == Cardinality(WhitelistKeys)

\* u16::MAX, scaled down to the number of entries that can be created.
U16_MAX == Cardinality(WhitelistKeys)

\* ------------------------------------------------------------------ state

VARIABLES
    initialized,      \* the FundAccount PDA exists
    admin,            \* FundAccount.admin
    total_funds,      \* FundAccount.total_funds
    bump,             \* FundAccount.bump
    whitelist_count,  \* FundAccount.whitelist_count
    whitelist,        \* the WhitelistEntry accounts, keyed by seed address
    balance,          \* TokenAccount.amount of every token account
    clock,            \* Clock::get()?.unix_timestamp
    net_deposits,     \* history: sum of the amounts of the successful store_funds
                      \* minus that of the successful allocate_funds
    last,             \* the last instruction and its outcome
    registry,         \* the RegistryConfig account (and whether it exists)
    instances,        \* the InstanceRecord accounts, keyed by instance_id
    rate_limits,      \* the RateLimitAccount accounts, keyed by authority
    lamports          \* lamports of the signers and of the registry account

ledger == <<initialized, admin, total_funds, bump, whitelist_count>>

program == <<initialized, admin, total_funds, bump, whitelist_count, whitelist, balance>>

\* The state of the fund_manager program, with its history variable.
fund_state == <<initialized, admin, total_funds, bump, whitelist_count, whitelist,
                balance, net_deposits>>

\* The state of the instance_registry program.
registry_state == <<registry, instances, rate_limits, lamports>>

vars == <<initialized, admin, total_funds, bump, whitelist_count, whitelist,
          balance, clock, net_deposits, last, registry, instances, rate_limits,
          lamports>>

\* ctx.bumps.fund_account: the canonical bump of the fund_account PDA (one
\* fixed byte; its value plays no part).
CanonicalBump == 255

Outcome(op, result) == [op |-> op, result |-> result]

Init ==
    /\ initialized = FALSE
    /\ admin = DefaultPubkey
    /\ total_funds = 0
    /\ bump = 0
    /\ whitelist_count = 0
    /\ whitelist = [k \in {} |-> 0]
    /\ balance = [a \in TokenAccounts |-> IF a = "acctA" THEN Supply ELSE 0]
    /\ clock = 1
    /\ net_deposits = 0
    /\ last = Outcome("none", "Ok")
    /\ registry = [initialized |-> FALSE, admin |-> DefaultPubkey,
                   registration_fee |-> 0, total_instances |-> 0, bump |-> 0]
    /\ instances = [i \in {} |-> 0]
    /\ rate_limits = [a \in {} |-> 0]
    /\ lamports = [a \in Signers \cup {RegistryPDA} |->
                      IF a \in Signers THEN InitialLamports ELSE 0]

\* ---------------------------------------------------------------- helpers

\* u64/u16 checked_add and checked_sub: None on overflow / underflow.
None == -1

\* Mutation of checked_add: the sum wraps around instead of failing.
wrapping_add(a, b, max) == (a + b) % (max + 1)

\* Mutation of checked_add: the sum saturates at the maximum instead of
\* failing.
saturating_add(a, b, max) == IF a + b > max THEN max ELSE a + b

checked_add(a, b, max) == IF a + b > max THEN None ELSE a + b

checked_sub(a, b) == IF a < b THEN None ELSE a - b

\* Mutation of IsAdmin: the admin check is missing.
AnyoneIsAdmin(caller) == TRUE

\* Mutation of IsAdmin: a ledger whose admin is the default key is treated as
\* having no admin yet, and anyone passes.
IsAdminOrUnset(caller) == caller = admin \/ admin = DefaultPubkey

\* require!(ctx.accounts.admin.key() == fund_account.admin, ...)
IsAdmin(caller) == caller = admin

\* Account<'info, WhitelistEntry>: the account must exist.
EntryExists(k) == k \in DOMAIN whitelist

\* token::transfer as the token program decides it: the source must hold the
\* amount, and the authority must be the owner of the source account.
token_transfer_result(from, to, authority, amount) ==
    IF balance[from] < amount THEN "TokenInsufficientFunds"
    ELSE IF authority # TokenOwner(from) THEN "TokenOwnerMismatch"
    ELSE "Ok"

\* The balances after a successful transfer.
token_transfer(from, to, amount) ==
    [balance EXCEPT ![from] = @ - amount, ![to] = @ + amount]

\* ----------------------------------------------------------- instructions

\* Mutation of initialize_result: init_if_needed in place of init, so that
\* the instruction runs again on the existing ledger.
initialize_result_if_needed == "Ok"

\* initialize: Initialize account validation (init of the PDA of seeds
\* [b"fund_account"] fails when the account exists).
initialize_result ==
    IF initialized THEN "AlreadyInUse" ELSE "Ok"

initialize(payer, new_admin) ==
    LET r == initialize_result IN
    /\ IF r = "Ok"
       THEN /\ initialized' = TRUE
            /\ admin' = new_admin
            /\ total_funds' = 0
            /\ bump' = CanonicalBump
            /\ whitelist_count' = 0
       ELSE UNCHANGED ledger
    /\ last' = Outcome("initialize", r)
    /\ UNCHANGED <<whitelist, balance, clock, net_deposits>>

\* Mutation of store_funds_result: the transfer is signed for the escrow
\* authority (as in allocate_funds) instead of by the depositor.
store_funds_result_pda_signed(authority, amount, from, to) ==
    IF ~initialized THEN "AccountNotInitialized"
    ELSE LET t == token_transfer_result(from, to, FundPDA, amount) IN
         IF t # "Ok" THEN t
         ELSE IF checked_add(total_funds, amount, U64_MAX) = None THEN "Panic"
         ELSE "Ok"

\* store_funds: StoreFunds account validation, then the handler body.
store_funds_result(authority, amount, from, to) ==
    IF ~initialized THEN "AccountNotInitialized"
    ELSE LET t == token_transfer_result(from, to, authority, amount) IN
         IF t # "Ok" THEN t
         ELSE IF checked_add(total_funds, amount, U64_MAX) = None THEN "Panic"
         ELSE "Ok"

\* Mutation of store_funds: the counter is updated before the transfer and
\* stays updated when the transfer fails.
store_funds_counter_first(authority, amount, from, to) ==
    LET r == store_funds_result(authority, amount, from, to)
        counted == initialized /\ checked_add(total_funds, amount, U64_MAX) # None
    IN
    /\ balance' = IF r = "Ok" THEN token_transfer(from, to, amount) ELSE balance
    /\ total_funds' = IF counted THEN total_funds + amount ELSE total_funds
    /\ net_deposits' = IF r = "Ok" THEN net_deposits + amount ELSE net_deposits
    /\ last' = Outcome("store_funds", r)
    /\ UNCHANGED <<initialized, admin, bump, whitelist_count, whitelist, clock>>

store_funds(authority, amount, from, to) ==
    LET r == store_funds_result(authority, amount, from, to) IN
    /\ IF r = "Ok"
       THEN /\ balance' = token_transfer(from, to, amount)
            /\ total_funds' = checked_add(total_funds, amount, U64_MAX)
            /\ net_deposits' = net_deposits + amount
       ELSE UNCHANGED <<balance, total_funds, net_deposits>>
    /\ last' = Outcome("store_funds", r)
    /\ UNCHANGED <<initialized, admin, bump, whitelist_count, whitelist, clock>>

\* Mutation of allocate_funds_result: require!(whitelist_entry.is_active) is
\* missing.
allocate_funds_result_no_active_check(caller, amount, from, to) ==
    IF ~initialized THEN "AccountNotInitialized"
    ELSE IF ~EntryExists(TokenOwner(to)) THEN "AccountNotInitialized"
    ELSE IF ~IsAdmin(caller) THEN "UnauthorizedAdmin"
    ELSE IF ~(total_funds >= amount) THEN "InsufficientFunds"
    ELSE IF whitelist[TokenOwner(to)].address # TokenOwner(to) THEN "WhitelistAddressMismatch"
    ELSE LET t == token_transfer_result(from, to, FundPDA, amount) IN
         IF t # "Ok" THEN t
         ELSE IF checked_sub(total_funds, amount) = None THEN "Panic"
         ELSE "Ok"

\* Mutation of allocate_funds_result: require!(total_funds >= amount) is
\* missing.
allocate_funds_result_no_funds_check(caller, amount, from, to) ==
    IF ~initialized THEN "AccountNotInitialized"
    ELSE IF ~EntryExists(TokenOwner(to)) THEN "AccountNotInitialized"
    ELSE IF ~IsAdmin(caller) THEN "UnauthorizedAdmin"
    ELSE IF ~whitelist[TokenOwner(to)].is_active THEN "RecipientNotWhitelisted"
    ELSE IF whitelist[TokenOwner(to)].address # TokenOwner(to) THEN "WhitelistAddressMismatch"
    ELSE LET t == token_transfer_result(from, to, FundPDA, amount) IN
         IF t # "Ok" THEN t
         ELSE IF checked_sub(total_funds, amount) = None THEN "Panic"
         ELSE "Ok"

\* Mutation of allocate_funds_result: the funds check comes before the admin
\* check.
allocate_funds_result_funds_first(caller, amount, from, to) ==
    IF ~initialized THEN "AccountNotInitialized"
    ELSE IF ~EntryExists(TokenOwner(to)) THEN "AccountNotInitialized"
    ELSE IF ~(total_funds >= amount) THEN "InsufficientFunds"
    ELSE IF ~IsAdmin(caller) THEN "UnauthorizedAdmin"
    ELSE IF ~whitelist[TokenOwner(to)].is_active THEN "RecipientNotWhitelisted"
    ELSE IF whitelist[TokenOwner(to)].address # TokenOwner(to) THEN "WhitelistAddressMismatch"
    ELSE LET t == token_transfer_result(from, to, FundPDA, amount) IN
         IF t # "Ok" THEN t
         ELSE IF checked_sub(total_funds, amount) = None THEN "Panic"
         ELSE "Ok"

\* allocate_funds: AllocateFunds account validation (the whitelist_entry
\* account is the PDA of seeds [b"whitelist", to.owner] and must exist),
\* then the four require! checks, the signed transfer and the checked_sub.
allocate_funds_result(caller, amount, from, to) ==
    IF ~initialized THEN "AccountNotInitialized"
    ELSE IF ~EntryExists(TokenOwner(to)) THEN "AccountNotInitialized"
    ELSE IF ~IsAdmin(caller) THEN "UnauthorizedAdmin"
    ELSE IF ~(total_funds >= amount) THEN "InsufficientFunds"
    ELSE IF ~whitelist[TokenOwner(to)].is_active THEN "RecipientNotWhitelisted"
    ELSE IF whitelist[TokenOwner(to)].address # TokenOwner(to) THEN "WhitelistAddressMismatch"
    ELSE LET t == token_transfer_result(from, to, FundPDA, amount) IN
         IF t # "Ok" THEN t
         ELSE IF checked_sub(total_funds, amount) = None THEN "Panic"
         ELSE "Ok"

allocate_funds(caller, amount, from, to) ==
    LET r == allocate_funds_result(caller, amount, from, to) IN
    /\ IF r = "Ok"
       THEN /\ balance' = token_transfer(from, to, amount)
            /\ total_funds' = checked_sub(total_funds, amount)
            /\ net_deposits' = net_deposits - amount
       ELSE UNCHANGED <<balance, total_funds, net_deposits>>
    /\ last' = Outcome("allocate_funds", r)
    /\ UNCHANGED <<initialized, admin, bump, whitelist_count, whitelist, clock>>

set_admin_result(caller) ==
    IF ~initialized THEN "AccountNotInitialized"
    ELSE IF ~IsAdmin(caller) THEN "UnauthorizedAdmin"
    ELSE "Ok"

\* Mutation of set_admin: the rotation also resets the whitelist counter.
set_admin_resets_count(caller, new_admin) ==
    LET r == set_admin_result(caller) IN
    /\ admin' = IF r = "Ok" THEN new_admin ELSE admin
    /\ whitelist_count' = IF r = "Ok" THEN 0 ELSE whitelist_count
    /\ last' = Outcome("set_admin", r)
    /\ UNCHANGED <<initialized, total_funds, bump, whitelist, balance, clock,
                   net_deposits>>

set_admin(caller, new_admin) ==
    LET r == set_admin_result(caller) IN
    /\ admin' = IF r = "Ok" THEN new_admin ELSE admin
    /\ last' = Outcome("set_admin", r)
    /\ UNCHANGED <<initialized, total_funds, bump, whitelist_count, whitelist,
                   balance, clock, net_deposits>>

\* Mutation of add_whitelist_result: init_if_needed in place of init, which
\* turns the keyed insert into an upsert.
add_whitelist_result_upsert(caller, address, label) ==
    IF ~initialized THEN "AccountNotInitialized"
    ELSE IF ~IsAdmin(caller) THEN "UnauthorizedAdmin"
    ELSE IF ~(Len(label) <= MAX_LABEL_LEN) THEN "LabelTooLong"
    ELSE IF checked_add(whitelist_count, 1, U16_MAX) = None THEN "Panic"
    ELSE "Ok"

\* add_whitelist: AddWhitelist account validation (init of the PDA of seeds
\* [b"whitelist", address] fails when the account exists), then the body.
add_whitelist_result(caller, address, label) ==
    IF ~initialized THEN "AccountNotInitialized"
    ELSE IF EntryExists(address) THEN "AlreadyInUse"
    ELSE IF ~IsAdmin(caller) THEN "UnauthorizedAdmin"
    ELSE IF ~(Len(label) <= MAX_LABEL_LEN) THEN "LabelTooLong"
    ELSE IF checked_add(whitelist_count, 1, U16_MAX) = None THEN "Panic"
    ELSE "Ok"

NewEntry(caller, address, label) ==
    [address |-> address, label |-> label, is_active |-> TRUE,
     added_by |-> caller, added_at |-> clock]

add_whitelist(caller, address, label) ==
    LET r == add_whitelist_result(caller, address, label) IN
    /\ IF r = "Ok"
       THEN /\ whitelist' = [k \in DOMAIN whitelist \cup {address} |->
                                IF k = address THEN NewEntry(caller, address, label)
                                ELSE whitelist[k]]
            /\ whitelist_count' = checked_add(whitelist_count, 1, U16_MAX)
       ELSE UNCHANGED <<whitelist, whitelist_count>>
    /\ last' = Outcome("add_whitelist", r)
    /\ UNCHANGED <<initialized, admin, total_funds, bump, balance, clock,
                   net_deposits>>

\* Mutation of remove_whitelist_result: require!(whitelist_entry.is_active)
\* is missing, which makes the removal idempotent.
remove_whitelist_result_idempotent(caller, entry) ==
    IF ~initialized THEN "AccountNotInitialized"
    ELSE IF ~EntryExists(entry) THEN "AccountNotInitialized"
    ELSE IF ~IsAdmin(caller) THEN "UnauthorizedAdmin"
    ELSE "Ok"

remove_whitelist_result(caller, entry) ==
    IF ~initialized THEN "AccountNotInitialized"
    ELSE IF ~EntryExists(entry) THEN "AccountNotInitialized"
    ELSE IF ~IsAdmin(caller) THEN "UnauthorizedAdmin"
    ELSE IF ~whitelist[entry].is_active THEN "WhitelistEntryNotActive"
    ELSE "Ok"

\* Mutation of remove_whitelist: the removal also decrements the counter.
remove_whitelist_decrements(caller, entry) ==
    LET r == remove_whitelist_result(caller, entry) IN
    /\ whitelist' = IF r = "Ok"
                    THEN [whitelist EXCEPT ![entry].is_active = FALSE]
                    ELSE whitelist
    /\ whitelist_count' = IF r = "Ok" THEN whitelist_count - 1 ELSE whitelist_count
    /\ last' = Outcome("remove_whitelist", r)
    /\ UNCHANGED <<initialized, admin, total_funds, bump, balance, clock,
                   net_deposits>>

remove_whitelist(caller, entry) ==
    LET r == remove_whitelist_result(caller, entry) IN
    /\ whitelist' = IF r = "Ok"
                    THEN [whitelist EXCEPT ![entry].is_active = FALSE]
                    ELSE whitelist
    /\ last' = Outcome("remove_whitelist", r)
    /\ UNCHANGED <<ledger, balance, clock, net_deposits>>

toggle_whitelist_result(caller, entry) ==
    IF ~initialized THEN "AccountNotInitialized"
    ELSE IF ~EntryExists(entry) THEN "AccountNotInitialized"
    ELSE IF ~IsAdmin(caller) THEN "UnauthorizedAdmin"
    ELSE "Ok"

\* Mutation of toggle_whitelist: the entry is stamped again, as in
\* add_whitelist.
toggle_whitelist_restamps(caller, entry, is_active) ==
    LET r == toggle_whitelist_result(caller, entry) IN
    /\ whitelist' = IF r = "Ok"
                    THEN [whitelist EXCEPT ![entry].is_active = is_active,
                                           ![entry].added_by = caller,
                                           ![entry].added_at = clock]
                    ELSE whitelist
    /\ last' = Outcome("toggle_whitelist", r)
    /\ UNCHANGED <<ledger, balance, clock, net_deposits>>

toggle_whitelist(caller, entry, is_active) ==
    LET r == toggle_whitelist_result(caller, entry) IN
    /\ whitelist' = IF r = "Ok"
                    THEN [whitelist EXCEPT ![entry].is_active = is_active]
                    ELSE whitelist
    /\ last' = Outcome("toggle_whitelist", r)
    /\ UNCHANGED <<ledger, balance, clock, net_deposits>>

\* The clock advances between transactions.
Tick ==
    /\ clock < MaxClock
    /\ clock' = clock + 1
    /\ last' = Outcome("tick", "Ok")
    /\ UNCHANGED <<program, net_deposits>>

Next ==
    \/ \E p \in Signers, a \in Pubkeys : initialize(p, a) /\ UNCHANGED registry_state
    \/ \E c \in Signers, n \in Amounts, p \in TransferPairs :
          store_funds(c, n, p[1], p[2]) /\ UNCHANGED registry_state
    \/ \E c \in Signers, n \in Amounts, p \in TransferPairs :
          allocate_funds(c, n, p[1], p[2]) /\ UNCHANGED registry_state
    \/ \E c \in Signers, a \in Pubkeys : set_admin(c, a) /\ UNCHANGED registry_state
    \/ \E c \in Signers, k \in WhitelistKeys, l \in Labels :
          add_whitelist(c, k, l) /\ UNCHANGED registry_state
    \/ \E c \in Signers, k \in WhitelistKeys :
          remove_whitelist(c, k) /\ UNCHANGED registry_state
    \/ \E c \in Signers, k \in WhitelistKeys, b \in BOOLEAN :
          toggle_whitelist(c, k, b) /\ UNCHANGED registry_state
    \/ Tick /\ UNCHANGED registry_state

Spec == Init /\ [][Next]_vars

\* The same instructions with one more address to whitelist than the
\* whitelist counter can count (any Pubkey is an address), so that the
\* checked_add of add_whitelist reaches its limit; deposits and disbursements
\* go through the escrow account.
CounterKeys == Pubkeys

EscrowPairs == {p \in TransferPairs : "escrow" \in {p[1], p[2]}}

CounterNext ==
    \/ \E p \in Signers, a \in Pubkeys : initialize(p, a) /\ UNCHANGED registry_state
    \/ \E c \in Signers, n \in Amounts, p \in EscrowPairs :
          store_funds(c, n, p[1], p[2]) /\ UNCHANGED registry_state
    \/ \E c \in Signers, n \in Amounts, p \in EscrowPairs :
          allocate_funds(c, n, p[1], p[2]) /\ UNCHANGED registry_state
    \/ \E c \in Signers, a \in Pubkeys : set_admin(c, a) /\ UNCHANGED registry_state
    \/ \E c \in Signers, k \in CounterKeys, l \in Labels :
          add_whitelist(c, k, l) /\ UNCHANGED registry_state
    \/ \E c \in Signers, k \in CounterKeys :
          remove_whitelist(c, k) /\ UNCHANGED registry_state
    \/ \E c \in Signers, k \in CounterKeys, b \in BOOLEAN :
          toggle_whitelist(c, k, b) /\ UNCHANGED registry_state
    \/ Tick /\ UNCHANGED registry_state

CounterSpec == Init /\ [][CounterNext]_vars

\* ------------------------------------------- instance_registry: instructions

\* Values of the instance_id argument.
InstanceIds == {"i1", "i2"}

Endpoint(n) == [i \in 1..n |-> "e"]

Endpoints == {Endpoint(MAX_ENDPOINT_LEN), Endpoint(MAX_ENDPOINT_LEN + 1)}

\* Values of a registration fee: one that a signer can pay twice, one that
\* it can pay once.
Fees == {1, InitialLamports}

\* The clock advances by just less than the rate-limit window or by the
\* whole window, up to MaxTime: one whole window after the initial time.
ClockSteps == {RATE_LIMIT_SECONDS - 1, RATE_LIMIT_SECONDS}

MaxTime == RATE_LIMIT_SECONDS + 1

InstanceExists(id) == id \in DOMAIN instances

\* The rate_limit account of an authority as register_instance sees it:
\* init_if_needed creates it zeroed when it does not exist.
RateLimitOf(authority) ==
    IF authority \in DOMAIN rate_limits THEN rate_limits[authority]
    ELSE [authority |-> DefaultPubkey, last_registration |-> 0,
          registration_count |-> 0, bump |-> 0]

\* system_program::transfer: the source must hold the lamports.
system_transfer_result(from, amount) ==
    IF lamports[from] < amount THEN "SystemInsufficientFunds" ELSE "Ok"

system_transfer(from, to, amount) ==
    [lamports EXCEPT ![from] = @ - amount, ![to] = @ + amount]

registry_initialize_result ==
    IF registry.initialized THEN "AlreadyInUse" ELSE "Ok"

registry_initialize(caller, registration_fee) ==
    LET r == registry_initialize_result IN
    /\ registry' = IF r = "Ok"
                   THEN [initialized |-> TRUE, admin |-> caller,
                         registration_fee |-> registration_fee,
                         total_instances |-> 0, bump |-> CanonicalBump]
                   ELSE registry
    /\ last' = Outcome("registry_initialize", r)
    /\ UNCHANGED <<instances, rate_limits, lamports, clock>>

\* Mutation of register_instance_result: the rate-limit check is missing.
register_instance_result_no_rate_limit(authority, instance_id, endpoint) ==
    IF ~registry.initialized THEN "AccountNotInitialized"
    ELSE IF InstanceExists(instance_id) THEN "AlreadyInUse"
    ELSE IF ~(Len(endpoint) <= MAX_ENDPOINT_LEN) THEN "EndpointTooLong"
    ELSE system_transfer_result(authority, registry.registration_fee)

\* register_instance: RegisterInstance account validation (registry exists,
\* init of the instance PDA, init_if_needed of the rate_limit PDA), then the
\* endpoint check, the rate limit and the fee transfer.
register_instance_result(authority, instance_id, endpoint) ==
    IF ~registry.initialized THEN "AccountNotInitialized"
    ELSE IF InstanceExists(instance_id) THEN "AlreadyInUse"
    ELSE IF ~(Len(endpoint) <= MAX_ENDPOINT_LEN) THEN "EndpointTooLong"
    ELSE IF /\ RateLimitOf(authority).last_registration > 0
            /\ ~(clock - RateLimitOf(authority).last_registration >= RATE_LIMIT_SECONDS)
         THEN "RateLimitExceeded"
    ELSE system_transfer_result(authority, registry.registration_fee)

NewInstance(authority, instance_id, endpoint) ==
    [instance_id |-> instance_id, authority |-> authority, endpoint |-> endpoint,
     registered_at |-> clock, last_heartbeat |-> clock, is_active |-> TRUE,
     bump |-> CanonicalBump]

register_instance(authority, instance_id, endpoint) ==
    LET r == register_instance_result(authority, instance_id, endpoint) IN
    /\ IF r = "Ok"
       THEN /\ lamports' = system_transfer(authority, RegistryPDA,
                                           registry.registration_fee)
            /\ instances' = [i \in DOMAIN instances \cup {instance_id} |->
                                IF i = instance_id
                                THEN NewInstance(authority, instance_id, endpoint)
                                ELSE instances[i]]
            /\ rate_limits' = [a \in DOMAIN rate_limits \cup {authority} |->
                                  IF a = authority
                                  THEN [authority |-> authority,
                                        last_registration |-> clock,
                                        registration_count |->
                                            RateLimitOf(authority).registration_count + 1,
                                        bump |-> CanonicalBump]
                                  ELSE rate_limits[a]]
            /\ registry' = [registry EXCEPT !.total_instances = @ + 1]
       ELSE UNCHANGED registry_state
    /\ last' = Outcome("register_instance", r)
    /\ UNCHANGED clock

\* Mutation of update_heartbeat_result: require!(instance.is_active) is
\* missing.
update_heartbeat_result_no_active_check(caller, instance_id) ==
    IF ~InstanceExists(instance_id) THEN "AccountNotInitialized"
    ELSE IF caller # instances[instance_id].authority THEN "UnauthorizedAccess"
    ELSE "Ok"

update_heartbeat_result(caller, instance_id) ==
    IF ~InstanceExists(instance_id) THEN "AccountNotInitialized"
    ELSE IF ~instances[instance_id].is_active THEN "InstanceNotActive"
    ELSE IF caller # instances[instance_id].authority THEN "UnauthorizedAccess"
    ELSE "Ok"

update_heartbeat(caller, instance_id) ==
    LET r == update_heartbeat_result(caller, instance_id) IN
    /\ instances' = IF r = "Ok"
                    THEN [instances EXCEPT ![instance_id].last_heartbeat = clock]
                    ELSE instances
    /\ last' = Outcome("update_heartbeat", r)
    /\ UNCHANGED <<registry, rate_limits, lamports, clock>>

deactivate_instance_result(caller, instance_id) ==
    IF ~InstanceExists(instance_id) THEN "AccountNotInitialized"
    ELSE IF caller # instances[instance_id].authority THEN "UnauthorizedAccess"
    ELSE "Ok"

deactivate_instance(caller, instance_id) ==
    LET r == deactivate_instance_result(caller, instance_id) IN
    /\ instances' = IF r = "Ok"
                    THEN [instances EXCEPT ![instance_id].is_active = FALSE]
                    ELSE instances
    /\ last' = Outcome("deactivate_instance", r)
    /\ UNCHANGED <<registry, rate_limits, lamports, clock>>

update_registration_fee_result(caller) ==
    IF ~registry.initialized THEN "AccountNotInitialized"
    ELSE IF registry.admin # caller THEN "UnauthorizedAccess"
    ELSE "Ok"

update_registration_fee(caller, new_fee) ==
    LET r == update_registration_fee_result(caller) IN
    /\ registry' = IF r = "Ok"
                   THEN [registry EXCEPT !.registration_fee = new_fee]
                   ELSE registry
    /\ last' = Outcome("update_registration_fee", r)
    /\ UNCHANGED <<instances, rate_limits, lamports, clock>>

\* The clock advances between transactions.
Advance(d) ==
    /\ clock + d <= MaxTime
    /\ clock' = clock + d
    /\ last' = Outcome("tick", "Ok")
    /\ UNCHANGED registry_state

RegistryNext ==
    \/ \E c \in Signers, f \in Fees :
          registry_initialize(c, f) /\ UNCHANGED fund_state
    \/ \E c \in Signers, i \in InstanceIds, e \in Endpoints :
          register_instance(c, i, e) /\ UNCHANGED fund_state
    \/ \E c \in Signers, i \in InstanceIds :
          update_heartbeat(c, i) /\ UNCHANGED fund_state
    \/ \E c \in Signers, i \in InstanceIds :
          deactivate_instance(c, i) /\ UNCHANGED fund_state
    \/ \E c \in Signers, f \in Fees :
          update_registration_fee(c, f) /\ UNCHANGED fund_state
    \/ \E d \in ClockSteps : Advance(d) /\ UNCHANGED fund_state

RegistrySpec == Init /\ [][RegistryNext]_vars

\* ------------------------------------------------------------------ claims

AdminOps == {"allocate_funds", "set_admin", "add_whitelist",
             "remove_whitelist", "toggle_whitelist"}

\* The whitelist entry of identity k exists, is active and names k.
ActiveEntry(k) ==
    /\ EntryExists(k)
    /\ whitelist[k].is_active
    /\ whitelist[k].address = k

\* The token accounts whose authority is the escrow authority.
EscrowAccounts == {a \in TokenAccounts : TokenOwner(a) = FundPDA}

RECURSIVE SumOver(_, _)
SumOver(f, S) ==
    IF S = {} THEN 0
    ELSE LET x == CHOOSE y \in S : TRUE IN f[x] + SumOver(f, S \ {x})

\* The balance actually held in escrow custody.
CustodyBalance == SumOver(balance, EscrowAccounts)

\* C1: after any sequence of instructions, total_funds equals the sum of
\* the amounts of the successful store_funds minus the sum of the amounts of
\* the successful allocate_funds; failed calls and the other instructions
\* contribute nothing.
C1_Conservation == total_funds = net_deposits

\* C1 witness: a deposit and then a disbursement have both succeeded and
\* funds remain.
C1_Witness ==
    /\ last.op = "allocate_funds"
    /\ last.result = "Ok"
    /\ total_funds > 0

\* C2: in every reachable state total_funds equals the balance actually held
\* in the escrow's custody account, whatever source and destination accounts
\* the callers supply.
C2_TotalFundsEqualsCustody == initialized => total_funds = CustodyBalance

\* C3: allocate_funds succeeds only when the owner of the destination account
\* has a whitelist entry with is_active = TRUE whose address equals that
\* owner, in the state immediately before the disbursement; with no entry or
\* an inactive one it fails.
C3_WhitelistGate ==
    /\ [](\A c \in Signers, n \in Amounts, p \in TransferPairs :
            ~ActiveEntry(TokenOwner(p[2])) =>
                allocate_funds_result(c, n, p[1], p[2]) # "Ok")
    /\ [][(last'.op = "allocate_funds" /\ last'.result = "Ok") =>
            \A c \in Signers, n \in Amounts, p \in TransferPairs :
                allocate_funds(c, n, p[1], p[2]) => ActiveEntry(TokenOwner(p[2]))]_vars

\* C3 witness: a recipient was removed from the whitelist and the admin's
\* next disbursement to it has failed with RecipientNotWhitelisted.
C3_Witness ==
    /\ last.op = "allocate_funds"
    /\ last.result = "RecipientNotWhitelisted"
    /\ total_funds > 0

TransferErrors == {"TokenInsufficientFunds", "TokenOwnerMismatch"}

\* C4 as stated: every admin-only instruction invoked by an identity
\* different from the current admin fails with UnauthorizedAdmin.
C4_Original ==
    initialized =>
        \A c \in Signers \ {admin} :
            /\ \A n \in Amounts, p \in TransferPairs :
                  allocate_funds_result(c, n, p[1], p[2]) = "UnauthorizedAdmin"
            /\ set_admin_result(c) = "UnauthorizedAdmin"
            /\ \A k \in WhitelistKeys, l \in Labels :
                  add_whitelist_result(c, k, l) = "UnauthorizedAdmin"
            /\ \A k \in WhitelistKeys :
                  /\ remove_whitelist_result(c, k) = "UnauthorizedAdmin"
                  /\ toggle_whitelist_result(c, k) = "UnauthorizedAdmin"

\* What a caller different from the admin gets from each admin-only
\* instruction: UnauthorizedAdmin when the accounts pass account validation,
\* the account validation error otherwise.
NonAdminRefused(c) ==
    /\ \A n \in Amounts, p \in TransferPairs :
          allocate_funds_result(c, n, p[1], p[2]) =
              IF EntryExists(TokenOwner(p[2])) THEN "UnauthorizedAdmin"
              ELSE "AccountNotInitialized"
    /\ set_admin_result(c) = "UnauthorizedAdmin"
    /\ \A k \in WhitelistKeys, l \in Labels :
          add_whitelist_result(c, k, l) =
              IF EntryExists(k) THEN "AlreadyInUse" ELSE "UnauthorizedAdmin"
    /\ \A k \in WhitelistKeys :
          /\ remove_whitelist_result(c, k) =
                IF EntryExists(k) THEN "UnauthorizedAdmin" ELSE "AccountNotInitialized"
          /\ toggle_whitelist_result(c, k) =
                IF EntryExists(k) THEN "UnauthorizedAdmin" ELSE "AccountNotInitialized"

\* The step is an admin-only instruction invoked by caller c.
AdminOpBy(c) ==
    \/ \E n \in Amounts, p \in TransferPairs : allocate_funds(c, n, p[1], p[2])
    \/ \E a \in Pubkeys : set_admin(c, a)
    \/ \E k \in WhitelistKeys, l \in Labels : add_whitelist(c, k, l)
    \/ \E k \in WhitelistKeys : remove_whitelist(c, k)
    \/ \E k \in WhitelistKeys, b \in BOOLEAN : toggle_whitelist(c, k, b)

\* C4 (amended): every admin-only instruction invoked by an identity
\* different from the current admin fails, with UnauthorizedAdmin whenever
\* the supplied accounts pass account validation and with the account
\* validation error otherwise, and leaves the ledger, every whitelist entry
\* and all custody balances unchanged; any step that changes admin, decreases
\* total_funds, or creates or modifies a whitelist entry is performed by the
\* admin of the pre-state.
C4_AdminGate ==
    /\ [](initialized => \A c \in Signers \ {admin} : NonAdminRefused(c))
    /\ [][/\ (last'.op \in AdminOps /\ last'.result # "Ok") => UNCHANGED program
          /\ (initialized /\ (admin' # admin \/ total_funds' < total_funds
                                \/ whitelist' # whitelist)) =>
                /\ AdminOpBy(admin)
                /\ \A c \in Signers \ {admin} : ~AdminOpBy(c)]_vars

\* C4 witness: an identity different from the admin has called an admin-only
\* instruction on a funded ledger with a whitelist entry and was refused.
C4_Witness ==
    /\ last.op \in AdminOps
    /\ last.result = "UnauthorizedAdmin"
    /\ total_funds > 0
    /\ DOMAIN whitelist # {}

\* C5 as stated: allocate_funds fails with InsufficientFunds whenever
\* amount > total_funds.
C5_Original ==
    initialized =>
        \A c \in Signers, n \in Amounts, p \in TransferPairs :
            n > total_funds =>
                allocate_funds_result(c, n, p[1], p[2]) = "InsufficientFunds"

\* C5 (amended): allocate_funds with amount > total_funds always fails and
\* leaves total_funds unchanged; the error is InsufficientFunds when the
\* caller is the admin and the whitelist entry of the target exists, the
\* account validation error when the entry does not exist, and
\* UnauthorizedAdmin when it exists and the caller is not the admin.
C5_NoOverDisbursement ==
    /\ [](initialized =>
            \A c \in Signers, n \in Amounts, p \in TransferPairs :
                n > total_funds =>
                    allocate_funds_result(c, n, p[1], p[2]) =
                        IF ~EntryExists(TokenOwner(p[2])) THEN "AccountNotInitialized"
                        ELSE IF c # admin THEN "UnauthorizedAdmin"
                        ELSE "InsufficientFunds")
    /\ [][/\ (last'.op = "allocate_funds" /\ last'.result = "InsufficientFunds") =>
                /\ total_funds' = total_funds
                /\ UNCHANGED program
          /\ (last'.op = "allocate_funds" /\ total_funds' # total_funds) =>
                \A c \in Signers, n \in Amounts, p \in TransferPairs :
                    allocate_funds(c, n, p[1], p[2]) =>
                        n <= total_funds /\ total_funds' = total_funds - n]_vars

\* C5 witness: the admin has asked for more than a funded ledger holds and
\* was refused with InsufficientFunds.
C5_Witness ==
    /\ last.op = "allocate_funds"
    /\ last.result = "InsufficientFunds"
    /\ total_funds > 0

\* C6: the balance of a token account whose authority is the escrow
\* authority decreases only in a successful allocate_funds invoked by the
\* current admin toward a recipient with an active whitelist entry; no
\* store_funds, whoever signs it, moves value out of such an account, while a
\* deposit into it needs only the depositor's signature.
C6_OutboundOnlyByProgram ==
    /\ [](\A c \in Signers, n \in Amounts, p \in TransferPairs :
            p[1] \in EscrowAccounts => store_funds_result(c, n, p[1], p[2]) # "Ok")
    /\ [](initialized =>
            \A c \in Signers, n \in Amounts, p \in TransferPairs :
                (/\ TokenOwner(p[1]) = c
                 /\ p[2] \in EscrowAccounts
                 /\ balance[p[1]] >= n
                 /\ total_funds + n <= U64_MAX)
                    => store_funds_result(c, n, p[1], p[2]) = "Ok")
    /\ [][(\E a \in EscrowAccounts : balance'[a] < balance[a]) =>
              /\ last'.op = "allocate_funds"
              /\ last'.result = "Ok"
              /\ \E n \in Amounts, p \in TransferPairs :
                    /\ allocate_funds(admin, n, p[1], p[2])
                    /\ p[1] \in EscrowAccounts
                    /\ ActiveEntry(TokenOwner(p[2]))
              /\ \A c \in Signers \ {admin}, n \in Amounts, p \in TransferPairs :
                    ~allocate_funds(c, n, p[1], p[2])]_vars

\* C6 witness: a disbursement has emptied the escrow account.
C6_Witness ==
    /\ last.op = "allocate_funds"
    /\ last.result = "Ok"
    /\ balance["escrow"] = 0

\* C7: when the token transfer inside store_funds or allocate_funds fails,
\* the instruction fails with the transfer error and total_funds, the other
\* ledger fields, the whitelist entries and all balances are unchanged.
C7_TransferFailureAtomic ==
    /\ [](initialized =>
            \A c \in Signers, n \in Amounts, p \in TransferPairs :
                /\ token_transfer_result(p[1], p[2], c, n) \in TransferErrors =>
                      store_funds_result(c, n, p[1], p[2]) =
                          token_transfer_result(p[1], p[2], c, n)
                /\ (/\ c = admin
                    /\ n <= total_funds
                    /\ ActiveEntry(TokenOwner(p[2]))
                    /\ token_transfer_result(p[1], p[2], FundPDA, n) \in TransferErrors)
                      => allocate_funds_result(c, n, p[1], p[2]) =
                             token_transfer_result(p[1], p[2], FundPDA, n))
    /\ [][last'.result \in TransferErrors =>
              /\ last'.op \in {"store_funds", "allocate_funds"}
              /\ UNCHANGED program]_vars

\* C7 witness: total_funds covered the amount, the escrow account did not,
\* and the disbursement has failed with the transfer error.
C7_Witness ==
    /\ last.op = "allocate_funds"
    /\ last.result = "TokenInsufficientFunds"
    /\ total_funds > balance["escrow"]

\* The outcomes with which account validation rejects an instruction before
\* its handler runs.
ValidationErrors == {"AccountNotInitialized", "AlreadyInUse"}

\* Caller c is refused by every admin-only instruction: none succeeds, and
\* each one whose accounts pass validation fails the admin check.
Refused(c) ==
    /\ \A n \in Amounts, p \in TransferPairs :
          allocate_funds_result(c, n, p[1], p[2])
              \in {"UnauthorizedAdmin"} \cup ValidationErrors
    /\ set_admin_result(c) = "UnauthorizedAdmin"
    /\ \A k \in WhitelistKeys, l \in Labels :
          add_whitelist_result(c, k, l) \in {"UnauthorizedAdmin"} \cup ValidationErrors
    /\ \A k \in WhitelistKeys :
          /\ remove_whitelist_result(c, k) \in {"UnauthorizedAdmin"} \cup ValidationErrors
          /\ toggle_whitelist_result(c, k) \in {"UnauthorizedAdmin"} \cup ValidationErrors

\* Caller c passes the admin check of every admin-only instruction; its
\* allocate_funds to an actively whitelisted recipient with
\* amount <= total_funds succeeds whenever the token transfer does.
PassesAdminCheck(c) ==
    /\ \A n \in Amounts, p \in TransferPairs :
          /\ allocate_funds_result(c, n, p[1], p[2]) # "UnauthorizedAdmin"
          /\ (ActiveEntry(TokenOwner(p[2])) /\ n <= total_funds) =>
                allocate_funds_result(c, n, p[1], p[2]) =
                    token_transfer_result(p[1], p[2], FundPDA, n)
    /\ set_admin_result(c) = "Ok"
    /\ \A k \in WhitelistKeys, l \in Labels :
          add_whitelist_result(c, k, l) # "UnauthorizedAdmin"
    /\ \A k \in WhitelistKeys :
          /\ remove_whitelist_result(c, k) # "UnauthorizedAdmin"
          /\ toggle_whitelist_result(c, k) # "UnauthorizedAdmin"

C9_IdempotenceAsymmetry ==
    /\ [](initialized =>
            \A k \in DOMAIN whitelist :
                /\ toggle_whitelist_result(admin, k) = "Ok"
                /\ remove_whitelist_result(admin, k) =
                      IF whitelist[k].is_active THEN "Ok" ELSE "WhitelistEntryNotActive")
    /\ [][/\ (last'.op = "toggle_whitelist" /\ last'.result = "Ok") =>
                \A k \in WhitelistKeys, b \in BOOLEAN :
                    toggle_whitelist(admin, k, b) =>
                        /\ whitelist'[k].is_active = b
                        /\ toggle_whitelist_result(admin, k)' = "Ok"
                        /\ (whitelist[k].is_active = b => UNCHANGED program)
          /\ (last'.op = "remove_whitelist" /\ last'.result = "Ok") =>
                \A k \in WhitelistKeys :
                    remove_whitelist(admin, k) =>
                        /\ whitelist[k].is_active
                        /\ ~whitelist'[k].is_active
                        /\ remove_whitelist_result(admin, k)' = "WhitelistEntryNotActive"
          /\ (last'.op = "remove_whitelist" /\ last'.result = "WhitelistEntryNotActive") =>
                UNCHANGED program]_vars

\* C9 witness: a second remove_whitelist on an entry has failed with
\* WhitelistEntryNotActive.
C9_Witness ==
    /\ last.op = "remove_whitelist"
    /\ last.result = "WhitelistEntryNotActive"

\* C10: no step deletes a whitelist entry or changes its address, label,
\* added_by or added_at; is_active changes only in a successful
\* remove_whitelist or toggle_whitelist on that entry, and such a step leaves
\* every other entry, the ledger fields and the balances unchanged.
C10_EntryFrame ==
    [][\A k \in DOMAIN whitelist :
          /\ k \in DOMAIN whitelist'
          /\ whitelist'[k].address = whitelist[k].address
          /\ whitelist'[k].label = whitelist[k].label
          /\ whitelist'[k].added_by = whitelist[k].added_by
          /\ whitelist'[k].added_at = whitelist[k].added_at
          /\ whitelist'[k].is_active # whitelist[k].is_active =>
                /\ last'.op \in {"remove_whitelist", "toggle_whitelist"}
                /\ last'.result = "Ok"
                /\ \/ remove_whitelist(admin, k)
                   \/ \E b \in BOOLEAN : toggle_whitelist(admin, k, b)
                /\ \A j \in DOMAIN whitelist \ {k} : whitelist'[j] = whitelist[j]
                /\ UNCHANGED <<ledger, balance>>]_vars

\* C10 witness: two entries exist, created by different admins at different
\* times, and one of them has just been re-activated.
C10_Witness ==
    /\ DOMAIN whitelist = WhitelistKeys
    /\ whitelist["A"].added_by # whitelist["B"].added_by
    /\ whitelist["A"].added_at # whitelist["B"].added_at
    /\ last.op = "toggle_whitelist"
    /\ last.result = "Ok"
    /\ whitelist["A"].is_active # whitelist["B"].is_active

\* C11 as stated: add_whitelist by the admin for an identity without an entry
\* and with a label of at most 64 characters creates the entry.
C11_Original ==
    initialized =>
        \A k \in CounterKeys \ DOMAIN whitelist, l \in Labels :
            (admin \in Signers /\ Len(l) <= MAX_LABEL_LEN) =>
                add_whitelist_result(admin, k, l) = "Ok"

\* C11 (amended): add_whitelist is a keyed insert.  For an identity that has
\* an entry it fails, whoever calls and whatever the label, with the
\* account-already-in-use error and changes nothing.  By the admin for an
\* identity without an entry: with a label longer than 64 it fails with
\* LabelTooLong; with a label of at most 64 it succeeds while whitelist_count
\* is below its 16-bit maximum and aborts at the maximum.  A success creates
\* exactly the entry of that identity, with address = the identity,
\* is_active = TRUE and added_by = the admin, and leaves every other entry
\* alone; a failure creates nothing and leaves the entries and
\* whitelist_count unchanged.
C11_KeyedInsert ==
    /\ [](initialized =>
            \A c \in Signers, k \in CounterKeys, l \in Labels :
                add_whitelist_result(c, k, l) =
                    IF EntryExists(k) THEN "AlreadyInUse"
                    ELSE IF c # admin THEN "UnauthorizedAdmin"
                    ELSE IF Len(l) > MAX_LABEL_LEN THEN "LabelTooLong"
                    ELSE IF whitelist_count = U16_MAX THEN "Panic"
                    ELSE "Ok")
    /\ [][last'.op = "add_whitelist" =>
            IF last'.result = "Ok"
            THEN \E k \in CounterKeys \ DOMAIN whitelist :
                    /\ DOMAIN whitelist' = DOMAIN whitelist \cup {k}
                    /\ whitelist'[k].address = k
                    /\ whitelist'[k].is_active
                    /\ whitelist'[k].added_by = admin
                    /\ Len(whitelist'[k].label) <= MAX_LABEL_LEN
                    /\ \A j \in DOMAIN whitelist : whitelist'[j] = whitelist[j]
            ELSE UNCHANGED program]_vars

\* C11 witness: every entry has been removed, and adding one of them again
\* has failed with the collision error.
C11_Witness ==
    /\ last.op = "add_whitelist"
    /\ last.result = "AlreadyInUse"
    /\ DOMAIN whitelist # {}
    /\ \A k \in DOMAIN whitelist : ~whitelist[k].is_active

\* C12: whitelist_count equals the number of entries created, which is the
\* number of entries that exist; it grows by exactly 1 in each successful
\* add_whitelist and is unchanged by every other step, failed calls included;
\* it never exceeds the 16-bit maximum, where add_whitelist aborts and
\* creates no entry.
C12_MonotonicCounter ==
    /\ [](/\ whitelist_count = Cardinality(DOMAIN whitelist)
          /\ whitelist_count \in 0..U16_MAX
          /\ (initialized /\ whitelist_count = U16_MAX) =>
                \A c \in Signers, k \in CounterKeys, l \in Labels :
                    add_whitelist_result(c, k, l) # "Ok")
    /\ [][/\ whitelist_count' =
                IF last'.op = "add_whitelist" /\ last'.result = "Ok"
                THEN whitelist_count + 1 ELSE whitelist_count
          /\ last'.result = "Panic" => UNCHANGED program]_vars

\* C12 witness: the counter is at its maximum and an add_whitelist for one
\* more address has aborted on the checked increment.
C12_Witness ==
    /\ last.op = "add_whitelist"
    /\ last.result = "Panic"
    /\ whitelist_count = U16_MAX
    /\ Cardinality(DOMAIN whitelist) = U16_MAX

\* C13: initialize succeeds at most once.  The first call creates the ledger
\* with total_funds = 0, whitelist_count = 0 and admin = its argument; every
\* later call, by any payer with any admin argument and after any other
\* instructions, fails with the account-already-in-use error of the keyed
\* create and leaves admin, total_funds, whitelist_count and bump (with the
\* rest of the program state) unchanged; the ledger is never un-created.
C13_InitializeOnce ==
    /\ [](initialize_result = IF initialized THEN "AlreadyInUse" ELSE "Ok")
    /\ [][/\ initialized => initialized'
          /\ last'.op = "initialize" =>
                IF last'.result = "Ok"
                THEN /\ ~initialized
                     /\ initialized'
                     /\ total_funds' = 0
                     /\ whitelist_count' = 0
                     /\ bump' = CanonicalBump
                     /\ \E p \in Signers, a \in Pubkeys :
                           initialize(p, a) /\ admin' = a
                     /\ UNCHANGED <<whitelist, balance>>
                ELSE /\ initialized
                     /\ last'.result = "AlreadyInUse"
                     /\ UNCHANGED program]_vars

\* C13 witness: after deposits, a whitelist entry and an admin rotation, a
\* second initialize has failed and the ledger still has its funds, its
\* counter and its rotated admin.
C13_Witness ==
    /\ last.op = "initialize"
    /\ last.result = "AlreadyInUse"
    /\ total_funds > 0
    /\ whitelist_count > 0
    /\ admin = "B"
    /\ EntryExists("A")
    /\ whitelist["A"].added_by = "A"

\* C14: total_funds stays within 0 .. u64::MAX; a store_funds whose amount
\* would take total_funds beyond u64::MAX never succeeds (it aborts on the
\* checked addition when its transfer went through, without wrapping or
\* saturating), and the aborted call leaves total_funds and every balance
\* unchanged; a successful store_funds adds exactly its amount.
C14_NoDepositOverflow ==
    /\ [](/\ total_funds \in 0..U64_MAX
          /\ initialized =>
                \A c \in Signers, n \in Amounts, p \in TransferPairs :
                    total_funds + n > U64_MAX =>
                        store_funds_result(c, n, p[1], p[2]) =
                            IF token_transfer_result(p[1], p[2], c, n) = "Ok"
                            THEN "Panic"
                            ELSE token_transfer_result(p[1], p[2], c, n))
    /\ [][last'.op = "store_funds" =>
            IF last'.result = "Ok"
            THEN \E n \in Amounts :
                    /\ total_funds' = total_funds + n
                    /\ total_funds + n <= U64_MAX
                    /\ \E c \in Signers, p \in TransferPairs :
                          store_funds(c, n, p[1], p[2])
            ELSE UNCHANGED program]_vars

\* C14 witness: total_funds is at u64::MAX and one more deposit, whose
\* transfer the depositor could pay for, has aborted.
C14_Witness ==
    /\ last.op = "store_funds"
    /\ last.result = "Panic"
    /\ total_funds = U64_MAX
    /\ \E a \in TokenAccounts \ EscrowAccounts : balance[a] > 0

\* The outcomes of allocate_funds that come from the token transfer or after
\* it.
PastTheChecks == TransferErrors \cup {"Ok", "Panic"}

\* C15 as stated: the error of allocate_funds is that of the first failing
\* check in the order (1) caller is admin, (2) amount <= total_funds, (3) an
\* active whitelist entry with matching address exists for the target.
C15_Original ==
    initialized =>
        \A c \in Signers, n \in Amounts, p \in TransferPairs :
            LET r == allocate_funds_result(c, n, p[1], p[2]) IN
            IF c # admin THEN r = "UnauthorizedAdmin"
            ELSE IF n > total_funds THEN r = "InsufficientFunds"
            ELSE IF ~ActiveEntry(TokenOwner(p[2]))
                 THEN r \notin PastTheChecks \cup {"UnauthorizedAdmin", "InsufficientFunds"}
            ELSE r \in PastTheChecks

\* C15 (amended): allocate_funds evaluates its preconditions in the order
\* (0) a whitelist entry exists for the owner of the target account (account
\* validation), (1) caller is admin, (2) amount <= total_funds, (3) the
\* entry is active, (4) its address is that owner; the error is that of the
\* first failing check in this order, and the token transfer is invoked only
\* when all of them pass.
C15_CheckOrder ==
    /\ [](initialized =>
            \A c \in Signers, n \in Amounts, p \in TransferPairs :
                allocate_funds_result(c, n, p[1], p[2]) =
                    IF ~EntryExists(TokenOwner(p[2])) THEN "AccountNotInitialized"
                    ELSE IF c # admin THEN "UnauthorizedAdmin"
                    ELSE IF n > total_funds THEN "InsufficientFunds"
                    ELSE IF ~whitelist[TokenOwner(p[2])].is_active
                         THEN "RecipientNotWhitelisted"
                    ELSE IF whitelist[TokenOwner(p[2])].address # TokenOwner(p[2])
                         THEN "WhitelistAddressMismatch"
                    ELSE token_transfer_result(p[1], p[2], FundPDA, n))
    /\ [][(last'.op = "allocate_funds" /\ last'.result \in PastTheChecks) =>
            \A c \in Signers, n \in Amounts, p \in TransferPairs :
                allocate_funds(c, n, p[1], p[2]) =>
                    /\ c = admin
                    /\ n <= total_funds
                    /\ ActiveEntry(TokenOwner(p[2]))]_vars

\* C15 witness: every entry has been removed, and the admin's request for
\* more than total_funds has failed with InsufficientFunds, the earlier of
\* its two failing checks.
C15_Witness ==
    /\ last.op = "allocate_funds"
    /\ last.result = "InsufficientFunds"
    /\ DOMAIN whitelist # {}
    /\ \A k \in DOMAIN whitelist : ~whitelist[k].is_active

\* C16: no store_funds or allocate_funds whose checks passed and whose
\* transfer succeeded then fails on the checked arithmetic of total_funds.
C16_ArithmeticAbortUnreachable ==
    ~(last.op \in {"store_funds", "allocate_funds"} /\ last.result = "Panic")

\* Nobody can sign for the admin key.
LockedOut == initialized /\ admin \notin Signers

\* C18: set_admin by the current admin succeeds whatever the new identity
\* is (the current admin, the default key); once the admin is an identity
\* nobody can sign for, admin never changes again, no allocate_funds,
\* set_admin, add_whitelist, remove_whitelist or toggle_whitelist succeeds,
\* no whitelist entry changes and total_funds never decreases, while
\* store_funds still succeeds.
C18_LockOutPermanent ==
    /\ []((initialized /\ admin \in Signers) => set_admin_result(admin) = "Ok")
    /\ [](LockedOut =>
            /\ \A c \in Signers : Refused(c)
            /\ \A c \in Signers, n \in Amounts, p \in TransferPairs :
                  (/\ TokenOwner(p[1]) = c
                   /\ balance[p[1]] >= n
                   /\ total_funds + n <= U64_MAX)
                      => store_funds_result(c, n, p[1], p[2]) = "Ok")
    /\ [][/\ (last'.op = "set_admin" /\ last'.result = "Ok") =>
                \E a \in Pubkeys : set_admin(admin, a) /\ admin' = a
          /\ LockedOut =>
                /\ LockedOut'
                /\ admin' = admin
                /\ whitelist' = whitelist
                /\ whitelist_count' = whitelist_count
                /\ total_funds' >= total_funds
                /\ last'.op \in AdminOps => last'.result # "Ok"]_vars

\* C18 witness: an admin that had whitelisted a recipient handed the ledger
\* to the default key, and a deposit has since succeeded.
C18_Witness ==
    /\ LockedOut
    /\ admin = DefaultPubkey
    /\ DOMAIN whitelist # {}
    /\ last.op = "store_funds"
    /\ last.result = "Ok"
    /\ total_funds > 0

\* Authority a registered successfully less than RATE_LIMIT_SECONDS ago, at
\* a positive timestamp.
RateLimited(a) ==
    /\ a \in DOMAIN rate_limits
    /\ rate_limits[a].last_registration > 0
    /\ clock - rate_limits[a].last_registration < RATE_LIMIT_SECONDS

\* The instance records registered by authority a.
RegisteredBy(a) == {i \in DOMAIN instances : instances[i].authority = a}

\* C19 as stated: every register_instance by an authority whose previous
\* successful registration was less than 60 seconds earlier fails with
\* RateLimitExceeded.
C19_Original ==
    registry.initialized =>
        \A c \in Signers, i \in InstanceIds, e \in Endpoints :
            RateLimited(c) => register_instance_result(c, i, e) = "RateLimitExceeded"

\* C19 (amended): any two instance records of one authority are registered
\* at least 60 seconds apart; a register_instance by an authority whose
\* previous successful registration was less than 60 seconds earlier fails
\* (with the already-in-use error for an instance id that has a record, with
\* EndpointTooLong for an endpoint longer than 200, and with
\* RateLimitExceeded otherwise); a failed register_instance creates no
\* record, collects no fee and leaves total_instances and the rate-limit
\* accounts unchanged; a successful one creates one record, collects the fee
\* and adds exactly 1 to total_instances and to the authority's
\* registration_count.
C19_RateLimit ==
    /\ [](/\ \A i, j \in DOMAIN instances :
                (i # j /\ instances[i].authority = instances[j].authority) =>
                    \/ instances[i].registered_at - instances[j].registered_at
                           >= RATE_LIMIT_SECONDS
                    \/ instances[j].registered_at - instances[i].registered_at
                           >= RATE_LIMIT_SECONDS
          /\ registry.total_instances = Cardinality(DOMAIN instances)
          /\ \A a \in Signers :
                RateLimitOf(a).registration_count = Cardinality(RegisteredBy(a)))
    /\ [](registry.initialized =>
            \A c \in Signers, i \in InstanceIds, e \in Endpoints :
                RateLimited(c) =>
                    register_instance_result(c, i, e) =
                        IF InstanceExists(i) THEN "AlreadyInUse"
                        ELSE IF Len(e) > MAX_ENDPOINT_LEN THEN "EndpointTooLong"
                        ELSE "RateLimitExceeded")
    /\ [][last'.op = "register_instance" =>
            IF last'.result = "Ok"
            THEN \E c \in Signers, i \in InstanceIds \ DOMAIN instances :
                    /\ ~RateLimited(c)
                    /\ DOMAIN instances' = DOMAIN instances \cup {i}
                    /\ instances'[i].authority = c
                    /\ instances'[i].registered_at = clock
                    /\ registry'.total_instances = registry.total_instances + 1
                    /\ rate_limits'[c].registration_count =
                          RateLimitOf(c).registration_count + 1
                    /\ rate_limits'[c].last_registration = clock
                    /\ \A a \in Signers \ {c} : RateLimitOf(a)' = RateLimitOf(a)
                    /\ lamports'[RegistryPDA] =
                          lamports[RegistryPDA] + registry.registration_fee
                    /\ lamports'[c] = lamports[c] - registry.registration_fee
            ELSE UNCHANGED registry_state]_vars

\* C19 witness: 59 seconds after its paid registration an authority that
\* can still pay the fee has asked for another one and was refused with
\* RateLimitExceeded.
C19_Witness ==
    /\ last.op = "register_instance"
    /\ last.result = "RateLimitExceeded"
    /\ lamports[RegistryPDA] > 0
    /\ \E c \in Signers :
          /\ RateLimited(c)
          /\ clock - rate_limits[c].last_registration = RATE_LIMIT_SECONDS - 1
          /\ lamports[c] >= registry.registration_fee
          /\ \A a \in Signers \ {c} : ~RateLimited(a)

\* C20 as stated: on an instance record, update_heartbeat and
\* deactivate_instance by a caller other than the recorded authority fail
\* with UnauthorizedAccess.
C20_Original ==
    \A i \in DOMAIN instances :
        \A c \in Signers \ {instances[i].authority} :
            /\ update_heartbeat_result(c, i) = "UnauthorizedAccess"
            /\ deactivate_instance_result(c, i) = "UnauthorizedAccess"

\* C20 (amended): only the authority recorded in an instance record makes
\* update_heartbeat or deactivate_instance succeed on it; any other caller
\* fails and the record is unchanged, with UnauthorizedAccess from
\* deactivate_instance and from update_heartbeat on an active instance, and
\* with InstanceNotActive from update_heartbeat on a deactivated one.  Once
\* an instance is deactivated, is_active stays false, every update_heartbeat
\* on it fails with InstanceNotActive, and last_heartbeat never changes.
C20_DeactivationAbsorbing ==
    /\ [](\A i \in DOMAIN instances, c \in Signers :
            /\ update_heartbeat_result(c, i) =
                  IF ~instances[i].is_active THEN "InstanceNotActive"
                  ELSE IF c # instances[i].authority THEN "UnauthorizedAccess"
                  ELSE "Ok"
            /\ deactivate_instance_result(c, i) =
                  IF c # instances[i].authority THEN "UnauthorizedAccess" ELSE "Ok")
    /\ [][/\ \A i \in DOMAIN instances :
                /\ i \in DOMAIN instances'
                /\ instances'[i].authority = instances[i].authority
                /\ ~instances[i].is_active =>
                      /\ ~instances'[i].is_active
                      /\ instances'[i].last_heartbeat = instances[i].last_heartbeat
                /\ instances'[i] # instances[i] =>
                      /\ last'.result = "Ok"
                      /\ \/ update_heartbeat(instances[i].authority, i)
                         \/ deactivate_instance(instances[i].authority, i)
                      /\ \A c \in Signers \ {instances[i].authority} :
                            /\ ~update_heartbeat(c, i)
                            /\ ~deactivate_instance(c, i)
          /\ (/\ last'.op \in {"update_heartbeat", "deactivate_instance"}
              /\ last'.result # "Ok") => UNCHANGED registry_state
          /\ (last'.op = "deactivate_instance" /\ last'.result = "Ok") =>
                \E i \in DOMAIN instances :
                    /\ ~instances'[i].is_active
                    /\ \A c \in Signers :
                          update_heartbeat_result(c, i)' = "InstanceNotActive"]_vars

\* C20 witness: of two instances one was deactivated, and some time later
\* an update_heartbeat on it has failed with InstanceNotActive, while the
\* other one, still active, has had its heartbeat updated.
C20_Witness ==
    /\ last.op = "update_heartbeat"
    /\ last.result = "InstanceNotActive"
    /\ \E i \in DOMAIN instances :
          /\ ~instances[i].is_active
          /\ clock > instances[i].last_heartbeat
          /\ \E j \in DOMAIN instances \ {i} :
                /\ instances[j].is_active
                /\ instances[j].last_heartbeat > instances[j].registered_at

====
